---------------------------- MODULE Spec2Model ----------------------------
(***************************************************************************)
(* ClockHandler of luna-sysservice (src/Src/ClockHandler.cpp): the         *)
(* registry of time sources (m_clocks), the manual-override flag, the      *)
(* operations setup / update / adjust / manualOverride and the two service *)
(* handlers /clock/setTime and /clock/getTime.                             *)
(*                                                                         *)
(* time_t is a signed machine integer.  The model keeps its shape on a     *)
(* reduced range LONG_MIN..LONG_MAX with LONG_MIN = -LONG_MAX - 1, so that *)
(* the two in-band sentinels (invalidTime = -1, invalidOffset = LONG_MIN)  *)
(* sit where they sit in the program.  Signed overflow is undefined in     *)
(* C++; calls whose arithmetic would leave the range are not issued (the   *)
(* NoOverflow guards), every other input is.                               *)
(*                                                                         *)
(* PrefsDb (in the same source file) and BackupManager                     *)
(* (src/Src/BackupManager.cpp): the preference databases on disk, the      *)
(* singleton and the standalone backup database, setPref / getPref /       *)
(* copyKeys / merge and the preBackup handler.  A database file is the map *)
(* of its Preferences table.  Of sqlite's failures the model has the ones  *)
(* the code branches on with a state of its own: a database that cannot be *)
(* opened, a file that cannot be attached, an INSERT from a file without   *)
(* the table.  The defaults files read when the singleton reopens add no   *)
(* key.  PrefsDb.h is not part of the source, so the default arguments it  *)
(* declares (deleteExisting, overwriteSameKeys) are inputs.                *)
(***************************************************************************)
EXTENDS Integers, Sequences, FiniteSets, TLC

\* ------------------------------------------------------------------ bounds
\* Largest time_t value of the model (LONG_MAX, scaled down).
MaxTime == 1

LONG_MAX == MaxTime
LONG_MIN == (-MaxTime) - 1
time_t == LONG_MIN..LONG_MAX

\* --------------------------------------------------------------- constants
manual == "manual"
micom == "micom"
system == "system"
invalidTime == -1
invalidOffset == LONG_MIN

\* Identifiers callers use, in the iteration order of ClocksMap (std::map
\* orders its keys, and "manual" < "micom" < "system").
TagOrder == <<manual, micom, system>>
Tags == {TagOrder[i] : i \in 1..Len(TagOrder)}

\* Values the callers of the model pass.
Priorities == {0, 1}
OffsetArgs == {invalidOffset, 1}
StampArgs == {invalidTime, 0, 1}
UtcArgs == {LONG_MIN, 1}
Deltas == {-1, 1}
NoFallback == "(none)"
Fallbacks == {NoFallback, system, micom}

VARIABLES
    m_clocks,          \* ClocksMap: registered tag -> Clock
    m_manualOverride,  \* the global override flag
    now,               \* what time(0) returns
    aborted,           \* an assert() has failed and ended the process
    call,              \* the operation called last
    ret,               \* what the last call returned / replied
    fired,             \* clockChanged.fire() calls made by the last call, in order
    query,             \* observer: the /clock/getTime request just served
    stampedBy,         \* observer: per tag, what has set its lastUpdate so far
    delivered,         \* observer: what the handlers of each fire() of the last call saw
    m_prefsDb,         \* PrefsDb::instance(): its sqlite handle is open
    dbFiles,           \* the preference databases on disk: file name -> (key -> value)
    m_p_backupDb,      \* BackupManager: NULL or the file of its standalone PrefsDb
    m_backupFiles,     \* BackupManager: the list of files to back up
    request            \* the arguments of the last PrefsDb / BackupManager call

vars == <<m_clocks, m_manualOverride, now, aborted, call, ret, fired, query, stampedBy,
          delivered, m_prefsDb, dbFiles, m_p_backupDb, m_backupFiles, request>>

clockVars == <<m_clocks, m_manualOverride, now, aborted, fired, query, stampedBy, delivered>>
backupVars == <<m_prefsDb, dbFiles, m_p_backupDb, m_backupFiles, request>>

\* ------------------------------------------------ PrefsDb, BackupManager
NULL == "NULL"
s_prefsPath == "/var/luna/preferences"
s_prefsDbPath == "/var/luna/preferences/systemprefs.db"
s_tempBackupDbFilenameOnly == "systemprefs_backup.db"
databaseVersion == "databaseVersion"

\* A preBackup request may leave tempDir out.
NoTempDir == "(no tempDir)"
TempDirs == {NoTempDir, "/tmp"}

\* The key list file may be missing.
NoKeylist == <<"(no file)">>
KeyLists == {NoKeylist, <<>>, <<"locale">>, <<"locale", "volume">>}
PrefValues == {"en", "fr"}

\* Files a restore may name: the two temporary backup databases and one in a
\* directory that does not exist.
UnreachableFile == "/missing/systemprefs_backup.db"
BackupFiles == {"/var/luna/preferences/systemprefs_backup.db", "/tmp/systemprefs_backup.db"}

NoRequest == [op |-> "none"]

\* The longest list of backup files the model lets build up.
MaxBackupFiles == 2


\* ------------------------------------------------------------------- types
Clock(priority, systemOffset, lastUpdate) ==
    [priority |-> priority, systemOffset |-> systemOffset, lastUpdate |-> lastUpdate]

Event(tag, priority, systemOffset, lastUpdate) ==
    [tag |-> tag, priority |-> priority, systemOffset |-> systemOffset,
     lastUpdate |-> lastUpdate]

Void == [kind |-> "void"]
Bool(b) == [kind |-> "bool", returnValue |-> b]

InRange(x) == x \in time_t

\* A tag nobody registers.
other == "other"
AllTags == Tags \cup {other}

Query(source, manualOverrideArg, fallback) ==
    [source |-> source, manualOverride |-> manualOverrideArg, fallback |-> fallback]
NoQuery == Query("", FALSE, "")


\* ------------------------------------------------------------ constructor
\* Faulty variant of Init: the constructor does not register "manual".
Init_noManual ==
    /\ m_clocks = [t \in {} |-> Clock(0, invalidOffset, invalidTime)]
    /\ m_manualOverride = FALSE
    /\ now = 0
    /\ aborted = FALSE
    /\ call = "ClockHandler"
    /\ ret = Void
    /\ fired = <<>>
    /\ query = NoQuery
    /\ stampedBy = [t \in AllTags |-> "none"]
    /\ delivered = <<>>
    /\ m_prefsDb = TRUE
    /\ dbFiles = (s_prefsDbPath :> (databaseVersion :> "1.0"))
    /\ m_p_backupDb = NULL
    /\ m_backupFiles = <<>>
    /\ request = NoRequest

Init ==
    /\ m_clocks = [t \in {manual} |-> Clock(0, invalidOffset, invalidTime)]
    /\ m_manualOverride = FALSE
    /\ now = 0
    /\ aborted = FALSE
    /\ call = "ClockHandler"
    /\ ret = Void
    /\ fired = <<>>
    /\ query = NoQuery
    /\ stampedBy = [t \in AllTags |-> "none"]
    /\ delivered = <<>>
    /\ m_prefsDb = TRUE
    /\ dbFiles = (s_prefsDbPath :> (databaseVersion :> "1.0"))
    /\ m_p_backupDb = NULL
    /\ m_backupFiles = <<>>
    /\ request = NoRequest

\* ------------------------------------------------------------------ setup
\* Faulty variants of setupClocks: the offset of an existing clock is stored
\* without the test for invalidOffset; a new clock with an offset gets
\* lastUpdate = time(0); the offset of an existing clock is stored without
\* lastUpdate.
setupClocks_resetsOffset(clocks, t, clockTag, priority, offset) ==
    IF clockTag \in DOMAIN clocks
    THEN [clocks EXCEPT ![clockTag] =
            Clock(priority, offset,
                  IF offset # invalidOffset THEN t ELSE @.lastUpdate)]
    ELSE [x \in DOMAIN clocks \cup {clockTag} |->
            IF x = clockTag THEN Clock(priority, offset, invalidTime) ELSE clocks[x]]

setupClocks_stampsNew(clocks, t, clockTag, priority, offset) ==
    IF clockTag \in DOMAIN clocks
    THEN [clocks EXCEPT ![clockTag] =
            IF offset # invalidOffset
            THEN Clock(priority, offset, t)
            ELSE Clock(priority, @.systemOffset, @.lastUpdate)]
    ELSE [x \in DOMAIN clocks \cup {clockTag} |->
            IF x = clockTag
            THEN Clock(priority, offset,
                       IF offset # invalidOffset THEN t ELSE invalidTime)
            ELSE clocks[x]]

setupClocks_keepsStamp(clocks, t, clockTag, priority, offset) ==
    IF clockTag \in DOMAIN clocks
    THEN [clocks EXCEPT ![clockTag] =
            IF offset # invalidOffset
            THEN Clock(priority, offset, @.lastUpdate)
            ELSE Clock(priority, @.systemOffset, @.lastUpdate)]
    ELSE [x \in DOMAIN clocks \cup {clockTag} |->
            IF x = clockTag THEN Clock(priority, offset, invalidTime) ELSE clocks[x]]

setupClocks(clocks, t, clockTag, priority, offset) ==
    IF clockTag \in DOMAIN clocks
    THEN [clocks EXCEPT ![clockTag] =
            IF offset # invalidOffset
            THEN Clock(priority, offset, t)
            ELSE Clock(priority, @.systemOffset, @.lastUpdate)]
    ELSE [x \in DOMAIN clocks \cup {clockTag} |->
            IF x = clockTag THEN Clock(priority, offset, invalidTime) ELSE clocks[x]]

\* The model keeps at most one source besides "manual" registered.
CanRegister(clockTag) ==
    clockTag \in DOMAIN m_clocks \/ DOMAIN m_clocks = {manual}

setup(clockTag, priority, offset) ==
    /\ ~aborted
    /\ CanRegister(clockTag)
    /\ m_clocks' = setupClocks(m_clocks, now, clockTag, priority, offset)
    /\ call' = "setup"
    /\ ret' = Void
    /\ fired' = <<>>
    /\ UNCHANGED <<m_manualOverride, now, aborted>>

\* ----------------------------------------------------------------- update
\* Faulty variants of IsOutdated: an equal time-stamp passes; the comparison
\* is turned round.
IsOutdated_strict(prevTimeStamp, timeStamp) ==
    /\ timeStamp # invalidTime
    /\ prevTimeStamp # invalidTime
    /\ prevTimeStamp > timeStamp

IsOutdated_reversed(prevTimeStamp, timeStamp) ==
    /\ timeStamp # invalidTime
    /\ prevTimeStamp # invalidTime
    /\ prevTimeStamp <= timeStamp

\* The test that makes update() return early without touching the clock.
IsOutdated(prevTimeStamp, timeStamp) ==
    /\ timeStamp # invalidTime
    /\ prevTimeStamp # invalidTime
    /\ prevTimeStamp >= timeStamp

ResolveTimeStamp(t, timeStamp) ==
    IF timeStamp = invalidTime THEN t ELSE timeStamp

\* Faulty variant of UpdateClock: the time-stamp is not stored.
UpdateClock_keepsStamp(clock, offset, timeStamp) ==
    Clock(clock.priority, offset, clock.lastUpdate)

UpdateClock(clock, offset, timeStamp) ==
    Clock(clock.priority, offset, timeStamp)

\* Faulty variant of updateResult: an unknown tag is inserted (m_clocks[clockTag]
\* instead of find()).
updateResult_inserts(clocks, t, offset, clockTag, timeStamp) ==
    LET known == IF clockTag \in DOMAIN clocks THEN clocks
                 ELSE [x \in DOMAIN clocks \cup {clockTag} |->
                         IF x = clockTag THEN Clock(0, invalidOffset, invalidTime)
                         ELSE clocks[x]]
    IN  IF IsOutdated(known[clockTag].lastUpdate, timeStamp)
        THEN [clocks |-> known, returnValue |-> TRUE, fired |-> <<>>]
        ELSE LET ts == ResolveTimeStamp(t, timeStamp)
                 clock == UpdateClock(known[clockTag], offset, ts)
             IN  [clocks |-> [known EXCEPT ![clockTag] = clock],
                  returnValue |-> TRUE,
                  fired |-> <<Event(clockTag, clock.priority, offset, clock.lastUpdate)>>]

\* update() as a function of the state it reads: the registry it leaves, the
\* value it returns and the events it fires.
updateResult(clocks, t, offset, clockTag, timeStamp) ==
    IF clockTag \notin DOMAIN clocks
    THEN [clocks |-> clocks, returnValue |-> FALSE, fired |-> <<>>]
    ELSE IF IsOutdated(clocks[clockTag].lastUpdate, timeStamp)
    THEN [clocks |-> clocks, returnValue |-> TRUE, fired |-> <<>>]
    ELSE LET ts == ResolveTimeStamp(t, timeStamp)
             clock == UpdateClock(clocks[clockTag], offset, ts)
         IN  [clocks |-> [clocks EXCEPT ![clockTag] = clock],
              returnValue |-> TRUE,
              fired |-> <<Event(clockTag, clock.priority, offset, clock.lastUpdate)>>]


update(offset, clockTag, timeStamp) ==
    /\ ~aborted
    /\ LET r == updateResult(m_clocks, now, offset, clockTag, timeStamp)
       IN  /\ m_clocks' = r.clocks
           /\ ret' = Bool(r.returnValue)
           /\ fired' = r.fired
    /\ call' = "update"
    /\ UNCHANGED <<m_manualOverride, now, aborted>>

\* ----------------------------------------------------------------- adjust
\* Faulty variant of adjustClock: lastUpdate is moved the way the offset is.
adjustClock_sameSign(clock, offset) ==
    IF clock.systemOffset = invalidOffset THEN clock
    ELSE Clock(clock.priority,
               clock.systemOffset - offset,
               IF clock.lastUpdate # invalidTime
               THEN clock.lastUpdate - offset ELSE clock.lastUpdate)

\* Faulty variant of adjustClock: a re-based clock is rebuilt with priority 0.
adjustClock_dropsPriority(clock, offset) ==
    IF clock.systemOffset = invalidOffset THEN clock
    ELSE Clock(0,
               clock.systemOffset - offset,
               IF clock.lastUpdate # invalidTime
               THEN clock.lastUpdate + offset ELSE clock.lastUpdate)

adjustClock(clock, offset) ==
    IF clock.systemOffset = invalidOffset THEN clock
    ELSE Clock(clock.priority,
               clock.systemOffset - offset,
               IF clock.lastUpdate # invalidTime
               THEN clock.lastUpdate + offset ELSE clock.lastUpdate)

\* Faulty variant of adjustClocks: a clock without offset is erased instead of
\* skipped.
adjustClocks_dropsUnset(clocks, offset) ==
    [t \in {x \in DOMAIN clocks : clocks[x].systemOffset # invalidOffset} |->
        adjustClock(clocks[t], offset)]

adjustClocks(clocks, offset) ==
    [t \in DOMAIN clocks |-> adjustClock(clocks[t], offset)]

\* No signed overflow in adjust(offset).
NoOverflow(clocks, offset) ==
    \A t \in DOMAIN clocks :
        /\ InRange(adjustClock(clocks[t], offset).systemOffset)
        /\ InRange(adjustClock(clocks[t], offset).lastUpdate)


adjust(offset) ==
    /\ ~aborted
    /\ NoOverflow(m_clocks, offset)
    /\ m_clocks' = adjustClocks(m_clocks, offset)
    /\ call' = "adjust"
    /\ ret' = Void
    /\ fired' = <<>>
    /\ UNCHANGED <<m_manualOverride, now, aborted>>

\* The process clock is stepped by delta and the registry is re-based.
TimeStepped(delta) ==
    /\ ~aborted
    /\ now + delta \in 0..LONG_MAX
    /\ NoOverflow(m_clocks, delta)
    /\ now' = now + delta
    /\ m_clocks' = adjustClocks(m_clocks, delta)
    /\ call' = "timeStepped"
    /\ ret' = Void
    /\ fired' = <<>>
    /\ UNCHANGED <<m_manualOverride, aborted>>

\* Time passes.
Tick ==
    /\ ~aborted
    /\ now < LONG_MAX
    /\ now' = now + 1
    /\ call' = "tick"
    /\ ret' = Void
    /\ fired' = <<>>
    /\ UNCHANGED <<m_clocks, m_manualOverride, aborted>>

\* --------------------------------------------------------- manualOverride
\* The assertion inside the re-send loop.
ClockInvariant(clock) ==
    clock.lastUpdate = invalidTime \/ clock.systemOffset # invalidOffset

\* Faulty variant of resend: only a source with neither lastUpdate nor offset
\* is skipped.
RECURSIVE resend_sendsInitialOffset(_, _)
resend_sendsInitialOffset(clocks, i) ==
    IF i > Len(TagOrder) THEN [fired |-> <<>>, failed |-> FALSE]
    ELSE LET tag == TagOrder[i]
         IN  IF tag \notin DOMAIN clocks
                \/ (clocks[tag].lastUpdate = invalidTime
                    /\ clocks[tag].systemOffset = invalidOffset)
             THEN resend_sendsInitialOffset(clocks, i + 1)
             ELSE IF ~ClockInvariant(clocks[tag])
             THEN [fired |-> <<>>, failed |-> TRUE]
             ELSE LET rest == resend_sendsInitialOffset(clocks, i + 1)
                      c == clocks[tag]
                  IN  [fired |-> <<Event(tag, c.priority, c.systemOffset, c.lastUpdate)>>
                                 \o rest.fired,
                       failed |-> rest.failed]

\* The re-send loop from position i of the map: the events fired, and whether
\* the assertion failed (which ends the loop and the process).
RECURSIVE resend(_, _)
resend(clocks, i) ==
    IF i > Len(TagOrder) THEN [fired |-> <<>>, failed |-> FALSE]
    ELSE LET tag == TagOrder[i]
         IN  IF tag \notin DOMAIN clocks \/ clocks[tag].lastUpdate = invalidTime
             THEN resend(clocks, i + 1)
             ELSE IF ~ClockInvariant(clocks[tag])
             THEN [fired |-> <<>>, failed |-> TRUE]
             ELSE LET rest == resend(clocks, i + 1)
                      c == clocks[tag]
                  IN  [fired |-> <<Event(tag, c.priority, c.systemOffset, c.lastUpdate)>>
                                 \o rest.fired,
                       failed |-> rest.failed]

\* Faulty variant of manualOverride: the clocks are re-sent on every change of
\* the flag.
manualOverride_resendsOnEnable(enabled) ==
    /\ ~aborted
    /\ call' = "manualOverride"
    /\ ret' = Void
    /\ IF m_manualOverride = enabled
       THEN /\ fired' = <<>>
            /\ UNCHANGED <<m_manualOverride, aborted>>
       ELSE /\ m_manualOverride' = enabled
            /\ fired' = resend(m_clocks, 1).fired
            /\ aborted' = resend(m_clocks, 1).failed
    /\ UNCHANGED <<m_clocks, now>>

manualOverride(enabled) ==
    /\ ~aborted
    /\ call' = "manualOverride"
    /\ ret' = Void
    /\ IF m_manualOverride = enabled
       THEN /\ fired' = <<>>
            /\ UNCHANGED <<m_manualOverride, aborted>>
       ELSE /\ m_manualOverride' = enabled
            /\ IF ~enabled
               THEN /\ fired' = resend(m_clocks, 1).fired
                    /\ aborted' = resend(m_clocks, 1).failed
               ELSE /\ fired' = <<>>
                    /\ UNCHANGED aborted
    /\ UNCHANGED <<m_clocks, now>>

\* -------------------------------------------------------------- cbSetTime
\* Faulty variant of cbSetTime: utc is stored as the offset.
cbSetTime_absolute(source, utcInteger) ==
    /\ ~aborted
    /\ InRange(utcInteger - now)
    /\ LET systemOffset == utcInteger
           r == updateResult(m_clocks, now, systemOffset, source, invalidTime)
       IN  /\ m_clocks' = r.clocks
           /\ ret' = [kind |-> "reply", returnValue |-> r.returnValue]
           /\ fired' = r.fired
    /\ call' = "setTime"
    /\ UNCHANGED <<m_manualOverride, now, aborted>>

cbSetTime(source, utcInteger) ==
    /\ ~aborted
    /\ InRange(utcInteger - now)
    /\ LET systemOffset == utcInteger - now
           r == updateResult(m_clocks, now, systemOffset, source, invalidTime)
       IN  /\ m_clocks' = r.clocks
           /\ ret' = [kind |-> "reply", returnValue |-> r.returnValue]
           /\ fired' = r.fired
    /\ call' = "setTime"
    /\ UNCHANGED <<m_manualOverride, now, aborted>>

\* -------------------------------------------------------------- cbGetTime
\* Faulty variant of HasTime: a clock of priority 0 counts as having no time.
HasTime_positivePriority(clocks, tag) ==
    /\ tag \in DOMAIN clocks
    /\ clocks[tag].systemOffset # invalidOffset
    /\ clocks[tag].priority > 0

\* Faulty variant of HasTime: the offset is not looked at.
HasTime_onlyRegistered(clocks, tag) ==
    tag \in DOMAIN clocks

HasTime(clocks, tag) ==
    tag \in DOMAIN clocks /\ clocks[tag].systemOffset # invalidOffset

\* Faulty variant of Forced: the offset of "manual" is not looked at.
Forced_unsetManual(clocks, override, manualOverrideArg) ==
    manualOverrideArg /\ override /\ manual \in DOMAIN clocks

\* Faulty variant of Forced: the manualOverride parameter of the request is
\* not looked at.
Forced_ignoresArg(clocks, override, manualOverrideArg) ==
    override /\ HasTime(clocks, manual)

\* Faulty variant of Forced: the global override flag is not looked at.
Forced_ignoresFlag(clocks, override, manualOverrideArg) ==
    manualOverrideArg /\ HasTime(clocks, manual)

\* The override step: TRUE when the query is forced to "manual".
Forced(clocks, override, manualOverrideArg) ==
    manualOverrideArg /\ override /\ HasTime(clocks, manual)

\* Faulty variant of UseFallback: the test of isSystem is left out.
UseFallback_evenForSystem(clocks, source, haveFallback, isSystem) ==
    haveFallback /\ ~HasTime(clocks, source)

\* The fallback step applies.
UseFallback(clocks, source, haveFallback, isSystem) ==
    haveFallback /\ ~HasTime(clocks, source) /\ ~isSystem

\* Faulty variant of getTimeReply: the override step leaves isSystem as it is.
getTimeReply_systemWins(clocks, override, t, sourceArg, manualOverrideArg, fallbackArg) ==
    LET forced == Forced(clocks, override, manualOverrideArg)
        source1 == IF forced THEN manual ELSE sourceArg
        isSystem1 == sourceArg = system
        haveFallback == IF forced THEN FALSE ELSE fallbackArg # NoFallback
        fb == UseFallback(clocks, source1, haveFallback, isSystem1)
        source == IF fb THEN fallbackArg ELSE source1
        isSystem == IF fb THEN fallbackArg = system ELSE isSystem1
    IN  IF isSystem
        THEN [kind |-> "reply", returnValue |-> TRUE, source |-> system,
              offset |-> 0, utc |-> t]
        ELSE IF source \notin DOMAIN clocks
        THEN [kind |-> "reply", returnValue |-> FALSE,
              errorText |-> "Requested clock is not registered", source |-> source]
        ELSE IF clocks[source].systemOffset = invalidOffset
        THEN [kind |-> "reply", returnValue |-> FALSE,
              errorText |-> "No time available for that clock", source |-> source,
              priority |-> clocks[source].priority]
        ELSE [kind |-> "reply", returnValue |-> TRUE,
              offset |-> clocks[source].systemOffset,
              utc |-> t + clocks[source].systemOffset,
              source |-> source, priority |-> clocks[source].priority]

\* The reply of /clock/getTime.
getTimeReply(clocks, override, t, sourceArg, manualOverrideArg, fallbackArg) ==
    LET forced == Forced(clocks, override, manualOverrideArg)
        source1 == IF forced THEN manual ELSE sourceArg
        isSystem1 == IF forced THEN FALSE ELSE sourceArg = system
        haveFallback == IF forced THEN FALSE ELSE fallbackArg # NoFallback
        fb == UseFallback(clocks, source1, haveFallback, isSystem1)
        source == IF fb THEN fallbackArg ELSE source1
        isSystem == IF fb THEN fallbackArg = system ELSE isSystem1
    IN  IF isSystem
        THEN [kind |-> "reply", returnValue |-> TRUE, source |-> system,
              offset |-> 0, utc |-> t]
        ELSE IF source \notin DOMAIN clocks
        THEN [kind |-> "reply", returnValue |-> FALSE,
              errorText |-> "Requested clock is not registered", source |-> source]
        ELSE IF clocks[source].systemOffset = invalidOffset
        THEN [kind |-> "reply", returnValue |-> FALSE,
              errorText |-> "No time available for that clock", source |-> source,
              priority |-> clocks[source].priority]
        ELSE [kind |-> "reply", returnValue |-> TRUE,
              offset |-> clocks[source].systemOffset,
              utc |-> t + clocks[source].systemOffset,
              source |-> source, priority |-> clocks[source].priority]

\* Faulty variant of cbGetTime: the clock is looked up with m_clocks[source],
\* which inserts a missing one.
cbGetTime_insertsSource(source, manualOverrideArg, fallback) ==
    /\ ~aborted
    /\ LET r == getTimeReply(m_clocks, m_manualOverride, now, source,
                             manualOverrideArg, fallback)
       IN  /\ r.returnValue => InRange(r.utc)
           /\ ret' = r
    /\ m_clocks' = IF source \in DOMAIN m_clocks THEN m_clocks
                   ELSE [x \in DOMAIN m_clocks \cup {source} |->
                           IF x = source THEN Clock(0, invalidOffset, invalidTime)
                           ELSE m_clocks[x]]
    /\ call' = "getTime"
    /\ fired' = <<>>
    /\ UNCHANGED <<m_manualOverride, now, aborted>>

cbGetTime(source, manualOverrideArg, fallback) ==
    /\ ~aborted
    /\ LET r == getTimeReply(m_clocks, m_manualOverride, now, source,
                             manualOverrideArg, fallback)
       IN  /\ r.returnValue => InRange(r.utc)
           /\ ret' = r
    /\ call' = "getTime"
    /\ fired' = <<>>
    /\ UNCHANGED <<m_clocks, m_manualOverride, now, aborted>>

\* ---------------------------------------------------------------- PrefsDb
\* A PrefsDb is named "instance" (the singleton, on s_prefsDbPath) or "backup"
\* (the standalone database of the BackupManager, which exists only open).
IsOpen(db, open, backupDb) == IF db = "instance" THEN open ELSE backupDb # NULL
FileOf(db, backupDb) == IF db = "instance" THEN s_prefsDbPath ELSE backupDb

Put(prefs, key, value) ==
    [k \in DOMAIN prefs \cup {key} |-> IF k = key THEN value ELSE prefs[k]]

\* getPref(key, r_val)
getPref(open, files, path, key) ==
    IF open /\ key # "" /\ key \in DOMAIN files[path]
    THEN [found |-> TRUE, value |-> files[path][key]]
    ELSE [found |-> FALSE, value |-> ""]

\* setPref(key, value): the table replaces the row of an existing key.
setPrefResult(open, files, path, key, value) ==
    IF ~open \/ key = ""
    THEN [returnValue |-> FALSE, files |-> files]
    ELSE [returnValue |-> TRUE,
          files |-> [files EXCEPT ![path] = Put(files[path], key, value)]]

setPref(key, value) ==
    /\ LET r == setPrefResult(m_prefsDb, dbFiles, s_prefsDbPath, key, value)
       IN  /\ dbFiles' = r.files
           /\ ret' = Bool(r.returnValue)
    /\ call' = "setPref"
    /\ request' = [op |-> "setPref", key |-> key, value |-> value]
    /\ UNCHANGED <<m_prefsDb, m_p_backupDb, m_backupFiles>>

\* The loop of copyKeys from key number i on.
RECURSIVE copyLoop(_, _, _, _, _, _, _, _)
copyLoop(files, open, path, sourceOpen, sourcePath, keys, overwriteSameKeys, i) ==
    IF i > Len(keys) THEN [n |-> 0, files |-> files]
    ELSE LET val == getPref(sourceOpen, files, sourcePath, keys[i])
             myVal == getPref(open, files, path, keys[i])
         IN  IF val.found /\ (~myVal.found \/ overwriteSameKeys)
             THEN LET written == setPrefResult(open, files, path, keys[i], val.value).files
                      rest == copyLoop(written, open, path, sourceOpen, sourcePath,
                                       keys, overwriteSameKeys, i + 1)
                  IN  [n |-> rest.n + 1, files |-> rest.files]
             ELSE copyLoop(files, open, path, sourceOpen, sourcePath,
                           keys, overwriteSameKeys, i + 1)

copyKeysResult(files, open, backupDb, this, p_sourceDb, keys, overwriteSameKeys) ==
    IF p_sourceDb = NULL \/ p_sourceDb = this THEN [n |-> 0, files |-> files]
    ELSE IF keys = <<>> THEN [n |-> 0, files |-> files]
    ELSE IF ~IsOpen(p_sourceDb, open, backupDb) THEN [n |-> 0, files |-> files]
    ELSE copyLoop(files, IsOpen(this, open, backupDb), FileOf(this, backupDb),
                  TRUE, FileOf(p_sourceDb, backupDb), keys, overwriteSameKeys, 1)

copyKeys(this, p_sourceDb, keys, overwriteSameKeys) ==
    /\ this = "backup" \/ p_sourceDb = "backup" => m_p_backupDb # NULL
    /\ LET r == copyKeysResult(dbFiles, m_prefsDb, m_p_backupDb, this, p_sourceDb,
                               keys, overwriteSameKeys)
       IN  /\ dbFiles' = r.files
           /\ ret' = [kind |-> "int", value |-> r.n]
    /\ call' = "copyKeys"
    /\ request' = [op |-> "copyKeys", this |-> this, p_sourceDb |-> p_sourceDb,
                   keys |-> keys, overwriteSameKeys |-> overwriteSameKeys]
    /\ UNCHANGED <<m_prefsDb, m_p_backupDb, m_backupFiles>>

\* ATTACH DATABASE opens the file, or will create it; it fails when the file
\* cannot be reached. The INSERT ... SELECT fails when the attached file holds
\* no Preferences table.
CanAttach(sourceDbFilename) == sourceDbFilename # UnreachableFile

Merged(prefs, sourcePrefs) ==
    [k \in DOMAIN prefs \cup DOMAIN sourcePrefs |->
        IF k \in DOMAIN sourcePrefs THEN sourcePrefs[k] ELSE prefs[k]]

\* merge(sourceDbFilename, overwriteSameKeys); reopens: openPrefsDb() succeeds.
mergeResult(open, files, path, sourceDbFilename, overwriteSameKeys, reopens) ==
    IF overwriteSameKeys
    THEN IF ~open \/ ~CanAttach(sourceDbFilename)
         THEN [rc |-> 0, files |-> files, open |-> open]
         ELSE LET sqlOk == sourceDbFilename \in DOMAIN files
              IN  [rc |-> 1,
                   files |-> IF sqlOk
                             THEN [files EXCEPT
                                     ![path] = Merged(files[path], files[sourceDbFilename])]
                             ELSE files,
                   open |-> reopens]
    ELSE [rc |-> 0, files |-> files, open |-> open]

merge(sourceDbFilename, overwriteSameKeys, reopens) ==
    /\ LET r == mergeResult(m_prefsDb, dbFiles, s_prefsDbPath, sourceDbFilename,
                            overwriteSameKeys, reopens)
       IN  /\ dbFiles' = r.files
           /\ m_prefsDb' = r.open
           /\ ret' = [kind |-> "int", value |-> r.rc]
    /\ call' = "merge"
    /\ request' = [op |-> "merge", sourceDbFilename |-> sourceDbFilename,
                   overwriteSameKeys |-> overwriteSameKeys]
    /\ UNCHANGED <<m_p_backupDb, m_backupFiles>>

\* ---------------------------------------------------------- BackupManager
\* dbfile of preBackupCallback: tempDir, "/" and s_tempBackupDbFilenameOnly.
BackupDbFile(tempDir) ==
    IF tempDir = s_prefsPath THEN "/var/luna/preferences/systemprefs_backup.db"
    ELSE "/tmp/systemprefs_backup.db"

basename(path) == s_tempBackupDbFilenameOnly

\* createStandalone(dbFilename, deleteExisting): the files once the database
\* is open; a file without a databaseVersion row is created anew.
createStandaloneFiles(files, dbFilename, deleteExisting) ==
    LET kept == IF deleteExisting
                THEN [p \in DOMAIN files \ {dbFilename} |-> files[p]]
                ELSE files
    IN  IF dbFilename \in DOMAIN kept /\ databaseVersion \in DOMAIN kept[dbFilename]
        THEN kept
        ELSE [p \in DOMAIN kept \cup {dbFilename} |->
                IF p = dbFilename THEN (databaseVersion :> "1.0") ELSE kept[p]]

\* unlink() of createStandalone when the database cannot be opened afterwards.
unlinked(files, dbFilename, deleteExisting) ==
    IF deleteExisting THEN [p \in DOMAIN files \ {dbFilename} |-> files[p]] ELSE files

\* initFilesForBackup(useFilenameWithoutPath), the database file existing.
initFilesForBackup(backupFiles, dbFilename, useFilenameWithoutPath) ==
    Append(backupFiles, IF useFilenameWithoutPath THEN dbFilename ELSE basename(dbFilename))

\* sendPreBackupResponse(fileList) (m_doBackupFiles is never set to false)
sendPreBackupResponse(open, files, fileList) ==
    LET versionDb == getPref(open, files, s_prefsDbPath, databaseVersion)
    IN  [kind |-> "preBackup",
         version |-> IF versionDb.found /\ versionDb.value # "" THEN versionDb.value
                     ELSE "0.0",
         files |-> fileList]

\* opens: sqlite can open the new database; keylist: what the key list file
\* holds; deleteExisting, overwriteSameKeys: the defaults PrefsDb.h declares.
preBackupCallback(tempDirArg, opens, keylist, deleteExisting, overwriteSameKeys) ==
    /\ Len(m_backupFiles) < MaxBackupFiles
    /\ LET myTmp == tempDirArg = NoTempDir
           tempDir == IF myTmp THEN s_prefsPath ELSE tempDirArg
           dbfile == BackupDbFile(tempDir)
       IN  IF ~opens
           THEN /\ m_p_backupDb' = NULL
                /\ dbFiles' = unlinked(dbFiles, dbfile, deleteExisting)
                /\ ret' = sendPreBackupResponse(m_prefsDb, dbFiles', <<>>)
                /\ UNCHANGED m_backupFiles
           ELSE LET created == createStandaloneFiles(dbFiles, dbfile, deleteExisting)
                    copied == IF keylist = NoKeylist THEN created
                              ELSE copyKeysResult(created, m_prefsDb, dbfile, "backup",
                                                  "instance", keylist,
                                                  overwriteSameKeys).files
                IN  /\ m_p_backupDb' = dbfile
                    /\ dbFiles' = copied
                    /\ m_backupFiles' = initFilesForBackup(m_backupFiles, dbfile, myTmp)
                    /\ ret' = sendPreBackupResponse(m_prefsDb, copied, m_backupFiles')
    /\ call' = "preBackup"
    /\ request' = [op |-> "preBackup", tempDir |-> tempDirArg, opens |-> opens]
    /\ UNCHANGED m_prefsDb

\* -------------------------------------------------------------- observers
\* The three observers take no part in the program. Under Spec they stay as
\* Init leaves them; under SpecObserved they record
\*   query:     the parameters of the getTime request whose reply is in ret;
\*   stampedBy: "update" once update() has accepted a call for the tag, else
\*              "setup" once setup() has stored time(0) for it, else "none";
\*   delivered: per fire() of the last call, the event and what its handlers
\*              saw of the registry and the override flag.
NotObserved == UNCHANGED <<query, stampedBy, delivered>> /\ UNCHANGED backupVars

Stamped(by, clockTag, how) ==
    IF by[clockTag] = "update" THEN by ELSE [by EXCEPT ![clockTag] = how]

ObserveSetup(clockTag, offset) ==
    /\ UNCHANGED backupVars
    /\ query' = NoQuery
    /\ stampedBy' = IF clockTag \in DOMAIN m_clocks /\ offset # invalidOffset
                    THEN Stamped(stampedBy, clockTag, "setup")
                    ELSE stampedBy

ObserveUpdate(clockTag) ==
    /\ UNCHANGED backupVars
    /\ query' = NoQuery
    /\ stampedBy' = IF fired' # <<>>
                    THEN Stamped(stampedBy, clockTag, "update")
                    ELSE stampedBy

ObserveQuery(source, manualOverrideArg, fallback) ==
    /\ UNCHANGED backupVars
    /\ query' = Query(source, manualOverrideArg, fallback)
    /\ UNCHANGED stampedBy

ObserveCall ==
    /\ UNCHANGED backupVars
    /\ query' = NoQuery
    /\ UNCHANGED stampedBy

\* clockChanged.fire(): the handlers are called before fire() returns, so each
\* of them sees the registry and the override flag as they are at the fire().
Deliver(event, clocks, override) ==
    [event |-> event, clock |-> clocks[event.tag], override |-> override]

\* Faulty variant of updateDeliveries: the event is fired before the clock is
\* written.
updateDeliveries_firesFirst(clocks, override, t, offset, clockTag, timeStamp) ==
    LET r == updateResult(clocks, t, offset, clockTag, timeStamp)
    IN  [i \in 1..Len(r.fired) |-> Deliver(r.fired[i], clocks, override)]

\* update(): lastUpdate and systemOffset are written, then the event is fired.
updateDeliveries(clocks, override, t, offset, clockTag, timeStamp) ==
    LET r == updateResult(clocks, t, offset, clockTag, timeStamp)
    IN  [i \in 1..Len(r.fired) |-> Deliver(r.fired[i], r.clocks, override)]

\* manualOverride(): the flag is written, then the clocks are re-sent.
manualOverrideDeliveries(clocks, override, enabled) ==
    IF override = enabled \/ enabled THEN <<>>
    ELSE LET r == resend(clocks, 1)
         IN  [i \in 1..Len(r.fired) |-> Deliver(r.fired[i], clocks, enabled)]

NoDeliveries == delivered' = <<>>

\* ---------------------------------------------------------- specification
Next ==
    \/ \E priority \in Priorities, offset \in OffsetArgs :
           setup(micom, priority, offset) /\ NotObserved
    \/ \E clockTag \in {manual, system}, offset \in OffsetArgs :
           setup(clockTag, 0, offset) /\ NotObserved
    \/ \E offset \in OffsetArgs, clockTag \in Tags, timeStamp \in StampArgs :
           update(offset, clockTag, timeStamp) /\ NotObserved
    \/ \E offset \in Deltas : adjust(offset) /\ NotObserved
    \/ \E delta \in Deltas : TimeStepped(delta) /\ NotObserved
    \/ Tick /\ NotObserved
    \/ \E enabled \in BOOLEAN : manualOverride(enabled) /\ NotObserved
    \/ \E source \in Tags, utcInteger \in UtcArgs :
           cbSetTime(source, utcInteger) /\ NotObserved
    \/ \E source \in Tags, mo \in BOOLEAN, fallback \in Fallbacks :
           cbGetTime(source, mo, fallback) /\ NotObserved

Spec == Init /\ [][Next]_vars

\* The same program with the observers recording, called with fewer values.
ObservedOffsets == {invalidOffset, 1}
ObservedStamps == {invalidTime, 1}
ObservedSources == {manual, micom, system}
ObservedFallbacks == {NoFallback, system, micom, other}

NextObserved ==
    \/ \E priority \in Priorities, offset \in ObservedOffsets :
           setup(micom, priority, offset) /\ ObserveSetup(micom, offset) /\ NoDeliveries
    \/ \E clockTag \in {manual, system}, offset \in ObservedOffsets :
           setup(clockTag, 0, offset) /\ ObserveSetup(clockTag, offset) /\ NoDeliveries
    \/ \E offset \in ObservedOffsets, clockTag \in Tags, timeStamp \in ObservedStamps :
           /\ update(offset, clockTag, timeStamp) /\ ObserveUpdate(clockTag)
           /\ delivered' = updateDeliveries(m_clocks, m_manualOverride, now,
                                            offset, clockTag, timeStamp)
    \/ adjust(1) /\ ObserveCall /\ NoDeliveries
    \/ TimeStepped(1) /\ ObserveCall /\ NoDeliveries
    \/ Tick /\ ObserveCall /\ NoDeliveries
    \/ \E enabled \in BOOLEAN :
           /\ manualOverride(enabled) /\ ObserveCall
           /\ delivered' = manualOverrideDeliveries(m_clocks, m_manualOverride, enabled)
    \/ /\ cbSetTime(manual, 1) /\ ObserveUpdate(manual)
       /\ delivered' = updateDeliveries(m_clocks, m_manualOverride, now,
                                        1 - now, manual, invalidTime)
    \/ \E source \in ObservedSources, mo \in BOOLEAN, fallback \in ObservedFallbacks :
           cbGetTime(source, mo, fallback) /\ ObserveQuery(source, mo, fallback) /\ NoDeliveries

SpecObserved == Init /\ [][NextObserved]_vars

\* The preference store and the backup manager on their own; the clocks rest.
NextBackup ==
    \/ \E key \in {"locale"}, value \in PrefValues :
           setPref(key, value) /\ UNCHANGED clockVars
    \/ \E tempDir \in TempDirs, opens \in BOOLEAN, keylist \in KeyLists,
          deleteExisting \in BOOLEAN, overwriteSameKeys \in BOOLEAN :
           /\ preBackupCallback(tempDir, opens, keylist, deleteExisting, overwriteSameKeys)
           /\ UNCHANGED clockVars
    \/ \E this \in {"instance", "backup"}, p_sourceDb \in {NULL, "instance", "backup"},
          keys \in KeyLists \ {NoKeylist}, overwriteSameKeys \in BOOLEAN :
           copyKeys(this, p_sourceDb, keys, overwriteSameKeys) /\ UNCHANGED clockVars
    \/ \E sourceDbFilename \in BackupFiles \cup {UnreachableFile},
          overwriteSameKeys \in BOOLEAN, reopens \in BOOLEAN :
           merge(sourceDbFilename, overwriteSameKeys, reopens) /\ UNCHANGED clockVars

SpecBackup == Init /\ [][NextBackup]_vars

\* ----------------------------------------------------------------- claims
Registered(clockTag) == clockTag \in DOMAIN m_clocks
Updated(clockTag) == Registered(clockTag) /\ m_clocks[clockTag].lastUpdate # invalidTime

\* ==================================================================== C1
\* C1: in every reachable state every registered source whose lastUpdate is
\* set has its offset set, and the assertion in manualOverride never fails.
C1_RegistryInvariant ==
    /\ \A t \in DOMAIN m_clocks :
           m_clocks[t].lastUpdate # invalidTime => m_clocks[t].systemOffset # invalidOffset
    /\ ~aborted

\* ==================================================================== C2
\* C2: an update with an explicit time-stamp that is not newer than the
\* lastUpdate of its (registered, already updated) source returns true, leaves
\* the registry and the override flag as they were and fires nothing.
C2_StaleUpdateIsNoOp ==
    [][call' = "update" =>
       \A offset \in OffsetArgs, clockTag \in Tags, timeStamp \in StampArgs :
          (/\ timeStamp # invalidTime
           /\ Updated(clockTag)
           /\ timeStamp <= m_clocks[clockTag].lastUpdate
           /\ update(offset, clockTag, timeStamp))
          => (/\ ret' = Bool(TRUE)
              /\ m_clocks' = m_clocks
              /\ m_manualOverride' = m_manualOverride
              /\ fired' = <<>>)]_vars

\* A stale update has just returned: the source still carries a lastUpdate
\* that an explicit time-stamp of the callers does not exceed.
C2_Witness ==
    /\ call = "update" /\ ret = Bool(TRUE) /\ fired = <<>>
    /\ \E t \in DOMAIN m_clocks, ts \in StampArgs :
           /\ ts # invalidTime
           /\ m_clocks[t].lastUpdate # invalidTime
           /\ ts <= m_clocks[t].lastUpdate

\* ==================================================================== C3
\* C3: an update without a time-stamp is checked against the current time:
\* if the source's lastUpdate is set and not less than now, the update is
\* ignored and the registry is unchanged.
C3_SentinelUpdateIsChecked ==
    [][call' = "update" =>
       \A offset \in OffsetArgs, clockTag \in Tags :
          (/\ Updated(clockTag)
           /\ m_clocks[clockTag].lastUpdate >= now
           /\ update(offset, clockTag, invalidTime))
          => (/\ ret' = Bool(TRUE)
              /\ m_clocks' = m_clocks
              /\ fired' = <<>>)]_vars

\* ==================================================================== C4
\* C4: an update on a registered source whose resolved time-stamp is newer
\* than its lastUpdate (or whose lastUpdate is unset) stores the resolved
\* time-stamp and the offset, keeps the priority and every other source,
\* returns true and fires exactly one event (tag, priority, offset, lastUpdate).
C4_AcceptedUpdate ==
    [][call' = "update" =>
       \A offset \in OffsetArgs, clockTag \in Tags, timeStamp \in StampArgs :
          LET ts == IF timeStamp = invalidTime THEN now ELSE timeStamp
          IN  (/\ Registered(clockTag)
               /\ (m_clocks[clockTag].lastUpdate = invalidTime
                   \/ m_clocks[clockTag].lastUpdate < ts)
               /\ update(offset, clockTag, timeStamp))
              => (/\ ret' = Bool(TRUE)
                  /\ DOMAIN m_clocks' = DOMAIN m_clocks
                  /\ m_clocks'[clockTag].lastUpdate = ts
                  /\ m_clocks'[clockTag].systemOffset = offset
                  /\ m_clocks'[clockTag].priority = m_clocks[clockTag].priority
                  /\ \A t \in DOMAIN m_clocks \ {clockTag} : m_clocks'[t] = m_clocks[t]
                  /\ m_manualOverride' = m_manualOverride
                  /\ fired' = <<[tag |-> clockTag,
                                 priority |-> m_clocks[clockTag].priority,
                                 systemOffset |-> offset,
                                 lastUpdate |-> ts]>>)]_vars

\* An update of one of two registered sources has just been accepted.
C4_Witness ==
    /\ call = "update" /\ ret = Bool(TRUE) /\ Len(fired) = 1
    /\ Cardinality(DOMAIN m_clocks) = 2
    /\ m_clocks[fired[1].tag].priority = 1

\* ==================================================================== C5
\* C5: update returns false exactly when its tag is not registered, and then
\* creates no entry, leaves the registry and the override flag unchanged and
\* fires nothing.
C5_UnknownSource ==
    [][call' = "update" =>
       \A offset \in OffsetArgs, clockTag \in Tags, timeStamp \in StampArgs :
          update(offset, clockTag, timeStamp)
          => (/\ (ret' = Bool(FALSE)) <=> ~Registered(clockTag)
              /\ ~Registered(clockTag)
                 => (/\ DOMAIN m_clocks' = DOMAIN m_clocks
                     /\ m_clocks' = m_clocks
                     /\ m_manualOverride' = m_manualOverride
                     /\ fired' = <<>>))]_vars

\* An update has just been refused while another source carries data.
C5_Witness ==
    /\ call = "update" /\ ret = Bool(FALSE) /\ fired = <<>>
    /\ \E t \in DOMAIN m_clocks : m_clocks[t].lastUpdate # invalidTime

\* ==================================================================== C6
\* C6: over update calls a source's lastUpdate never decreases, and it
\* strictly increases on every accepted update (one that fires an event).
C6_MonotonicLastUpdate ==
    [][call' = "update" =>
       \A offset \in OffsetArgs, clockTag \in Tags, timeStamp \in StampArgs :
          (Updated(clockTag) /\ update(offset, clockTag, timeStamp))
          => (/\ m_clocks'[clockTag].lastUpdate >= m_clocks[clockTag].lastUpdate
              /\ fired' # <<>>
                 => m_clocks'[clockTag].lastUpdate > m_clocks[clockTag].lastUpdate)]_vars

\* ==================================================================== C7
\* Longest run of update calls that C7 follows.
MaxSeqLen == 2

RunStamps == time_t \ {invalidTime}
RunCalls(lo) ==
    {[offset |-> o, timeStamp |-> ts] : o \in OffsetArgs, ts \in {x \in RunStamps : x > lo}}

\* The runs of 1..n update calls with strictly increasing explicit time-stamps,
\* all above lo.
RECURSIVE RunsFrom(_, _)
RunsFrom(lo, n) ==
    IF n = 0 THEN {}
    ELSE UNION {{<<c>>} \cup {<<c>> \o r : r \in RunsFrom(c.timeStamp, n - 1)} :
                c \in RunCalls(lo)}

Runs == RunsFrom(LONG_MIN - 1, MaxSeqLen)

\* update() called for each element of run in turn (time may pass between the
\* calls: an explicit time-stamp makes update() ignore the clock).
RECURSIVE applyRun(_, _, _, _)
applyRun(clocks, t, clockTag, run) ==
    IF run = <<>> THEN [clocks |-> clocks, accepted |-> TRUE]
    ELSE LET r == updateResult(clocks, t, run[1].offset, clockTag, run[1].timeStamp)
             rest == applyRun(r.clocks, t, clockTag, Tail(run))
         IN  [clocks |-> rest.clocks,
              accepted |-> r.returnValue /\ r.fired # <<>> /\ rest.accepted]

\* C7: from every reachable state, a run of update calls to one registered
\* source with strictly increasing explicit time-stamps (the first newer than
\* what the source holds, if it holds any) is accepted call by call and
\* leaves the offset and lastUpdate of the last call.
C7_IncreasingRun ==
    \A clockTag \in DOMAIN m_clocks : \A run \in Runs :
        (m_clocks[clockTag].lastUpdate = invalidTime
         \/ m_clocks[clockTag].lastUpdate < run[1].timeStamp)
        => LET r == applyRun(m_clocks, now, clockTag, run)
           IN  /\ r.accepted
               /\ r.clocks[clockTag].systemOffset = run[Len(run)].offset
               /\ r.clocks[clockTag].lastUpdate = run[Len(run)].timeStamp

\* An explicit update has just been accepted and a newer time-stamp exists:
\* the run can go on.
C7_Witness ==
    /\ call = "update" /\ Len(fired) = 1
    /\ \E run \in Runs :
           /\ m_clocks[fired[1].tag].lastUpdate < run[1].timeStamp
           /\ m_clocks[fired[1].tag].lastUpdate # invalidTime

\* ==================================================================== C8
\* C8: for every reachable registry and every delta d, adjust(d) followed by
\* adjust(-d) gives every source with a valid offset its offset and
\* lastUpdate back.
C8_RoundTrip ==
    \A d \in Deltas :
        LET once == adjustClocks(m_clocks, d)
            twice == adjustClocks(once, -d)
        IN  (NoOverflow(m_clocks, d) /\ NoOverflow(once, -d))
            => \A t \in DOMAIN m_clocks :
                   m_clocks[t].systemOffset # invalidOffset
                   => (/\ twice[t].systemOffset = m_clocks[t].systemOffset
                       /\ twice[t].lastUpdate = m_clocks[t].lastUpdate)

\* ==================================================================== C9
\* C9: adjust(delta) subtracts delta from every valid offset and adds it to
\* the lastUpdate beside it when that is valid; a source with an unset offset
\* keeps both fields.
C9_AdjustEffect ==
    [][call' \in {"adjust", "timeStepped"} =>
       \A delta \in Deltas :
          (adjust(delta) \/ TimeStepped(delta))
          => (/\ DOMAIN m_clocks' = DOMAIN m_clocks
              /\ \A t \in DOMAIN m_clocks :
                    IF m_clocks[t].systemOffset # invalidOffset
                    THEN /\ m_clocks'[t].systemOffset = m_clocks[t].systemOffset - delta
                         /\ m_clocks[t].lastUpdate # invalidTime
                            => m_clocks'[t].lastUpdate = m_clocks[t].lastUpdate + delta
                    ELSE /\ m_clocks'[t].systemOffset = m_clocks[t].systemOffset
                         /\ m_clocks'[t].lastUpdate = m_clocks[t].lastUpdate)]_vars

\* adjust has just run over a source with offset and lastUpdate set and over
\* one with an unset offset.
C9_Witness ==
    /\ call = "adjust"
    /\ \E t \in DOMAIN m_clocks :
           m_clocks[t].systemOffset # invalidOffset /\ m_clocks[t].lastUpdate \notin {invalidTime, 0}
    /\ \E t \in DOMAIN m_clocks :
           m_clocks[t].systemOffset = invalidOffset /\ m_clocks[t].lastUpdate # invalidTime

\* =================================================================== C10
\* C10: when the process clock is stepped by delta and adjust(delta) is
\* applied, getTime for every source with a valid offset still succeeds with
\* the utc it gave before, and now - lastUpdate is unchanged.
C10_RebasePreservesUtc ==
    [][call' = "timeStepped" =>
       \A delta \in Deltas :
          TimeStepped(delta)
          => \A t \in DOMAIN m_clocks :
                 m_clocks[t].systemOffset # invalidOffset
                 => LET before == getTimeReply(m_clocks, m_manualOverride, now,
                                               t, FALSE, NoFallback)
                        after == getTimeReply(m_clocks', m_manualOverride', now',
                                              t, FALSE, NoFallback)
                    IN  /\ before.returnValue
                        /\ after.returnValue
                        /\ after.utc = before.utc
                        /\ m_clocks[t].lastUpdate # invalidTime
                           => now' - m_clocks'[t].lastUpdate
                              = now - m_clocks[t].lastUpdate]_vars

\* =================================================================== C11
\* C11: adjust fires no event and leaves the set of registered tags, every
\* source's priority and the override flag as they were.
C11_AdjustIsSilent ==
    [][call' = "adjust" =>
       \A offset \in Deltas :
          adjust(offset)
          => (/\ fired' = <<>>
              /\ DOMAIN m_clocks' = DOMAIN m_clocks
              /\ \A t \in DOMAIN m_clocks : m_clocks'[t].priority = m_clocks[t].priority
              /\ m_manualOverride' = m_manualOverride)]_vars

\* adjust has just re-based a source of priority 1 while the override flag
\* is on.
C11_Witness ==
    /\ call = "adjust"
    /\ m_manualOverride
    /\ \E t \in DOMAIN m_clocks :
           /\ m_clocks[t].priority = 1
           /\ m_clocks[t].systemOffset \notin {invalidOffset, 1}

\* =================================================================== C12
\* C12: manualOverride(false) while the flag is true clears the flag, leaves
\* the registry unchanged and fires exactly one event for every registered
\* source whose lastUpdate is valid, carrying its tag, priority, offset and
\* lastUpdate, and no other event.
C12_Rebroadcast ==
    [][call' = "manualOverride" =>
       ((m_manualOverride /\ manualOverride(FALSE))
        => LET valid == {t \in DOMAIN m_clocks : m_clocks[t].lastUpdate # invalidTime}
           IN  /\ m_manualOverride' = FALSE
               /\ m_clocks' = m_clocks
               /\ Len(fired') = Cardinality(valid)
               /\ \A t \in valid :
                      \E i \in DOMAIN fired' :
                          fired'[i] = [tag |-> t,
                                       priority |-> m_clocks[t].priority,
                                       systemOffset |-> m_clocks[t].systemOffset,
                                       lastUpdate |-> m_clocks[t].lastUpdate])]_vars

C14_SilentCalls ==
    [][call' = "manualOverride" =>
       \A enabled \in BOOLEAN :
          (manualOverride(enabled) /\ ~(m_manualOverride /\ ~enabled))
          => (/\ fired' = <<>>
              /\ m_clocks' = m_clocks
              /\ aborted' = aborted
              /\ m_manualOverride' = IF m_manualOverride = enabled
                                     THEN m_manualOverride ELSE TRUE)]_vars

\* manualOverride has just returned with the flag on and without an event
\* although a source has been updated.
C14_Witness ==
    /\ call = "manualOverride"
    /\ m_manualOverride
    /\ fired = <<>>
    /\ \E t \in DOMAIN m_clocks : m_clocks[t].lastUpdate # invalidTime

\* ------------------------------------------------------ claims on getTime
\* A getTime request has just been served: query holds its parameters, ret
\* its reply; registry, override flag and time are those the request met.
Served == call = "getTime"

HasOffset(clockTag) ==
    Registered(clockTag) /\ m_clocks[clockTag].systemOffset # invalidOffset

QueryForced == query.manualOverride /\ m_manualOverride /\ HasOffset(manual)

FallbackApplies ==
    /\ query.fallback # NoFallback
    /\ ~QueryForced
    /\ query.source # system
    /\ ~HasOffset(query.source)

\* The source after the override step and the fallback step.
FinalSource ==
    IF QueryForced THEN manual
    ELSE IF FallbackApplies THEN query.fallback
    ELSE query.source

Unregistered(reply) ==
    ~reply.returnValue /\ reply.errorText = "Requested clock is not registered"
NoData(reply) ==
    ~reply.returnValue /\ reply.errorText = "No time available for that clock"

\* =================================================================== C15
\* C15: a request with manualOverride true, served while the override flag is
\* on and the manual source has a valid offset, is answered with success,
\* source "manual", the manual offset and utc = now + that offset, whatever
\* source and fallback it names.
C15_ForcedManual ==
    (Served /\ query.manualOverride /\ m_manualOverride /\ HasOffset(manual))
    => /\ ret.returnValue
       /\ ret.source = manual
       /\ ret.offset = m_clocks[manual].systemOffset
       /\ ret.utc = now + m_clocks[manual].systemOffset

\* A forced request for an unregistered source with fallback "system" has
\* been answered from "manual".
C15_Witness ==
    /\ Served
    /\ query = Query(micom, TRUE, system)
    /\ ~Registered(micom)
    /\ m_manualOverride
    /\ ret.returnValue /\ ret.source = manual

\* =================================================================== C16
\* C16: a request for "system" without manualOverride and without fallback is
\* answered with success, source "system", offset 0 and utc = now, whatever
\* the registry and the override flag are.
C16_SystemQuery ==
    (Served /\ query = Query(system, FALSE, NoFallback))
    => /\ ret.returnValue
       /\ ret.source = system
       /\ ret.offset = 0
       /\ ret.utc = now

\* Such a request has been served while a clock is registered as "system"
\* with an offset, the override flag is on and "manual" has an offset.
C16_Witness ==
    /\ Served
    /\ query = Query(system, FALSE, NoFallback)
    /\ HasOffset(system)
    /\ m_manualOverride /\ HasOffset(manual)
    /\ now > 0
    /\ ret.returnValue

\* =================================================================== C17
\* C17: the fallback is used exactly when one is given, the request is not
\* forced, its source is not "system" and is unregistered or without offset;
\* the reply is then the one a request for the fallback source alone gets
\* ("system": success with offset 0; a source with an offset: its data), and
\* otherwise the one the request gets without its fallback.
C17_Fallback ==
    Served
    => LET alone(tag) == getTimeReply(m_clocks, m_manualOverride, now, tag,
                                      query.manualOverride, NoFallback)
           fb == query.fallback
       IN  IF FallbackApplies
           THEN /\ ret = alone(fb)
                /\ fb = system
                   => (ret.returnValue /\ ret.source = system /\ ret.offset = 0)
                /\ (fb # system /\ HasOffset(fb))
                   => (/\ ret.returnValue
                       /\ ret.source = fb
                       /\ ret.offset = m_clocks[fb].systemOffset)
           ELSE ret = alone(query.source)

\* A request for a registered source without offset has been answered with
\* the data of its fallback.
C17_Witness ==
    /\ Served
    /\ query = Query(manual, FALSE, micom)
    /\ ~HasOffset(manual)
    /\ HasOffset(micom)
    /\ ret.returnValue /\ ret.source = micom

\* =================================================================== C18
\* C18: an unregistered-source error names the source the request asked for.
C18_ErrorNamesRequested ==
    (Served /\ Unregistered(ret)) => ret.source = query.source

\* =================================================================== C19
\* C19: the outcome follows from the final source: unregistered-source
\* exactly when it is not "system" and not registered, no-data exactly when
\* it is (not "system" and) registered without offset, success otherwise.
C19_Outcome ==
    Served
    => /\ Unregistered(ret) <=> (FinalSource # system /\ ~Registered(FinalSource))
       /\ NoData(ret) <=> (/\ FinalSource # system
                           /\ Registered(FinalSource)
                           /\ ~HasOffset(FinalSource))
       /\ ret.returnValue <=> (FinalSource = system \/ HasOffset(FinalSource))

\* A request without fallback for a registered source without offset has
\* been answered with no-data.
C19_Witness ==
    /\ Served
    /\ query = Query(micom, FALSE, NoFallback)
    /\ Registered(micom)
    /\ NoData(ret)

\* =================================================================== C20
\* C20: a successful reply not from "system" carries the stored offset of the
\* matched source, utc = now + that offset, its tag and its priority; and
\* after an accepted update(o, tag, t) a request for tag (no manualOverride,
\* no fallback) succeeds with offset o and utc = now + o.
C20_StoredData ==
    /\ (Served /\ ret.returnValue /\ ret.source # system)
       => (/\ ret.source = FinalSource
           /\ ret.offset = m_clocks[ret.source].systemOffset
           /\ ret.utc = now + m_clocks[ret.source].systemOffset
           /\ ret.priority = m_clocks[ret.source].priority)
    /\ (call = "update" /\ fired # <<>>)
       => LET o == fired[1].systemOffset
              r == getTimeReply(m_clocks, m_manualOverride, now, fired[1].tag,
                                FALSE, NoFallback)
          IN  r.returnValue /\ r.offset = o /\ r.utc = now + o

\* =================================================================== C21
\* C21: a request with manualOverride true, served while the override flag is
\* on and the manual source has no valid offset, gets the reply the same
\* request gets without manualOverride, its fallback included.
C21_NothingForced ==
    (Served /\ query.manualOverride /\ m_manualOverride /\ ~HasOffset(manual))
    => ret = getTimeReply(m_clocks, m_manualOverride, now,
                          query.source, FALSE, query.fallback)

\* Such a request for an unregistered source has been answered from its
\* fallback "system".
C21_Witness ==
    /\ Served
    /\ query = Query(micom, TRUE, system)
    /\ m_manualOverride
    /\ ~HasOffset(manual)
    /\ ~Registered(micom)
    /\ ret.returnValue /\ ret.source = system

\* =================================================================== C22
\* C22: serving a getTime request, successful or not, leaves the registered
\* tags, every clock's priority, offset and lastUpdate and the override flag
\* as they were and fires no event.
C22_GetTimeReadsOnly ==
    [][call' = "getTime" =>
       (/\ DOMAIN m_clocks' = DOMAIN m_clocks
        /\ \A t \in DOMAIN m_clocks :
               /\ m_clocks'[t].priority = m_clocks[t].priority
               /\ m_clocks'[t].systemOffset = m_clocks[t].systemOffset
               /\ m_clocks'[t].lastUpdate = m_clocks[t].lastUpdate
        /\ m_manualOverride' = m_manualOverride
        /\ fired' = <<>>)]_vars

\* A request has just failed for an unregistered source while another source
\* holds data and the override flag is on.
C22_Witness ==
    /\ call = "getTime"
    /\ ~ret.returnValue /\ ret.source = micom /\ ~Registered(micom)
    /\ m_manualOverride
    /\ \E t \in DOMAIN m_clocks : m_clocks[t].lastUpdate # invalidTime

\* =================================================================== C23
\* C23 as stated: setup, manualOverride and getTime never change the stored
\* offset of a registered source (neither from unset to valid nor from one
\* value to another).
C23_OnlyUpdateStoresOffset ==
    [][call' \in {"setup", "manualOverride", "getTime"} =>
       \A t \in DOMAIN m_clocks :
           m_clocks'[t].systemOffset = m_clocks[t].systemOffset]_vars

\* C23 as amended: setup without an offset, manualOverride and getTime never
\* change the stored offset of a registered source; setup with an offset on a
\* registered tag stores that offset and changes no other source's offset.
C23_SetupWithoutOffsetKeepsOffset ==
    [][call' \in {"setup", "manualOverride", "getTime"} =>
       /\ call' # "setup"
          => \A t \in DOMAIN m_clocks :
                 m_clocks'[t].systemOffset = m_clocks[t].systemOffset
       /\ \A clockTag \in Tags, priority \in Priorities, offset \in OffsetArgs :
              setup(clockTag, priority, offset)
              => \A t \in DOMAIN m_clocks :
                     m_clocks'[t].systemOffset =
                         IF t = clockTag /\ offset # invalidOffset
                         THEN offset
                         ELSE m_clocks[t].systemOffset]_vars

\* setup has just returned and every registered source holds an offset and a
\* lastUpdate other than the current time: no offset was passed.
C23_Witness ==
    /\ call = "setup"
    /\ Cardinality(DOMAIN m_clocks) = 2
    /\ \A t \in DOMAIN m_clocks :
           /\ m_clocks[t].systemOffset # invalidOffset
           /\ m_clocks[t].lastUpdate \notin {invalidTime, now}

\* =================================================================== C24
\* C24: a valid offset of a registered source stays valid and a valid
\* lastUpdate stays valid, whatever is called.
C24_NoWayBackToUnset ==
    [][\A t \in DOMAIN m_clocks :
           /\ t \in DOMAIN m_clocks'
           /\ m_clocks[t].systemOffset # invalidOffset
              => m_clocks'[t].systemOffset # invalidOffset
           /\ m_clocks[t].lastUpdate # invalidTime
              => m_clocks'[t].lastUpdate # invalidTime]_vars

\* =================================================================== C25
\* C25: setup on a tag that is not registered inserts one clock with the
\* priority and the offset passed (unset if none) and lastUpdate unset, fires
\* nothing and leaves every other clock and the override flag as they were.
C25_FirstRegistration ==
    [][call' = "setup" =>
       \A clockTag \in Tags, priority \in Priorities, offset \in OffsetArgs :
          (~Registered(clockTag) /\ setup(clockTag, priority, offset))
          => (/\ DOMAIN m_clocks' = DOMAIN m_clocks \cup {clockTag}
              /\ m_clocks'[clockTag].priority = priority
              /\ m_clocks'[clockTag].systemOffset = offset
              /\ m_clocks'[clockTag].lastUpdate = invalidTime
              /\ \A t \in DOMAIN m_clocks : m_clocks'[t] = m_clocks[t]
              /\ m_manualOverride' = m_manualOverride
              /\ fired' = <<>>)]_vars

\* setup has just returned; a source of priority 1 holds an offset without
\* lastUpdate beside an updated source, with the override flag on.
C25_Witness ==
    /\ call = "setup"
    /\ m_manualOverride
    /\ Registered(micom)
    /\ m_clocks[micom].priority = 1
    /\ m_clocks[micom].systemOffset = 1
    /\ m_clocks[micom].lastUpdate = invalidTime
    /\ m_clocks[manual].lastUpdate # invalidTime

\* =================================================================== C26
\* C26: setup on a registered tag keeps the set of tags, stores the priority,
\* stores the offset together with lastUpdate = time(0) if an offset is
\* passed and leaves both as they were if none is, fires nothing and leaves
\* every other clock and the override flag as they were.
C26_ReRegistration ==
    [][call' = "setup" =>
       \A clockTag \in Tags, priority \in Priorities, offset \in OffsetArgs :
          (Registered(clockTag) /\ setup(clockTag, priority, offset))
          => (/\ DOMAIN m_clocks' = DOMAIN m_clocks
              /\ m_clocks'[clockTag].priority = priority
              /\ IF offset # invalidOffset
                 THEN /\ m_clocks'[clockTag].systemOffset = offset
                      /\ m_clocks'[clockTag].lastUpdate = now
                 ELSE /\ m_clocks'[clockTag].systemOffset = m_clocks[clockTag].systemOffset
                      /\ m_clocks'[clockTag].lastUpdate = m_clocks[clockTag].lastUpdate
              /\ \A t \in DOMAIN m_clocks \ {clockTag} : m_clocks'[t] = m_clocks[t]
              /\ m_manualOverride' = m_manualOverride
              /\ fired' = <<>>)]_vars

\* setup has just returned at a time other than 0; "manual", which is
\* registered from the start, holds an offset and the current time as
\* lastUpdate, and a second source is registered.
C26_Witness ==
    /\ call = "setup"
    /\ now > 0
    /\ m_clocks[manual].systemOffset = 1
    /\ m_clocks[manual].lastUpdate = now
    /\ Cardinality(DOMAIN m_clocks) = 2

\* =================================================================== C27
\* C27: the registry never holds a clock tagged "system".
C27_SystemNeverRegistered ==
    system \notin DOMAIN m_clocks

\* =================================================================== C28
\* C28: the set of registered tags only grows, and it grows only by the one
\* tag of a setup call on a tag that is not registered.
C28_NeverDeleted ==
    [][/\ DOMAIN m_clocks \subseteq DOMAIN m_clocks'
       /\ DOMAIN m_clocks' # DOMAIN m_clocks
          => /\ call' = "setup"
             /\ Cardinality(DOMAIN m_clocks' \ DOMAIN m_clocks) = 1]_vars

\* adjust has just run over two registered sources, one of them without
\* offset.
C28_Witness ==
    /\ call = "adjust"
    /\ Cardinality(DOMAIN m_clocks) = 2
    /\ \E t \in DOMAIN m_clocks : m_clocks[t].systemOffset = invalidOffset
    /\ \E t \in DOMAIN m_clocks : m_clocks[t].systemOffset \notin {invalidOffset, 1}

\* =================================================================== C29
\* C29: setTime stores utc - time(0) as the offset of its source by an update
\* without time-stamp (lastUpdate = time(0), one event), and replies
\* returnValue false exactly when the source is not registered, in which
\* case nothing changes.
C29_SetTime ==
    [][call' = "setTime" =>
       \A source \in Tags, utcInteger \in UtcArgs :
          cbSetTime(source, utcInteger)
          => (/\ ret'.returnValue = Registered(source)
              /\ IF Registered(source)
                 THEN /\ m_clocks'[source].systemOffset = utcInteger - now
                      /\ m_clocks'[source].lastUpdate = now
                      /\ m_clocks'[source].priority = m_clocks[source].priority
                      /\ fired' = <<[tag |-> source,
                                     priority |-> m_clocks[source].priority,
                                     systemOffset |-> utcInteger - now,
                                     lastUpdate |-> now]>>
                 ELSE /\ m_clocks' = m_clocks
                      /\ fired' = <<>>)]_vars

\* setTime has just stored the offset 0 at time 1 (utc = 1).
C29_Witness ==
    /\ call = "setTime"
    /\ ret.returnValue
    /\ now = 1
    /\ Len(fired) = 1
    /\ fired[1].systemOffset = 0
    /\ fired[1].lastUpdate = 1

\* =================================================================== C30
\* What a reply tells apart from the priority it reports.
Outcome(reply) ==
    <<reply.returnValue, reply.source,
      IF reply.returnValue THEN <<reply.offset, reply.utc>> ELSE <<reply.errorText>>>>

\* Priorities a registry may hold instead of its own.
OtherPriorities == Priorities \cup {2}

WithPriorities(clocks, p) ==
    [t \in DOMAIN clocks |->
        Clock(p[t], clocks[t].systemOffset, clocks[t].lastUpdate)]

\* C30: the reply to a request is, but for the priority it reports, the one
\* the same request gets from a registry that differs only in priorities.
C30_PriorityIgnored ==
    Served
    => \A p \in [DOMAIN m_clocks -> OtherPriorities] :
           Outcome(getTimeReply(WithPriorities(m_clocks, p), m_manualOverride, now,
                                query.source, query.manualOverride, query.fallback))
           = Outcome(ret)

\* A forced request has been answered from "manual" (priority 0) while a
\* source of priority 1 holds an offset too.
C30_Witness ==
    /\ Served
    /\ query = Query(micom, TRUE, NoFallback)
    /\ ret.returnValue /\ ret.source = manual /\ ret.priority = 0
    /\ HasOffset(micom) /\ m_clocks[micom].priority = 1


\* =================================================================== C31
\* C31: while the override flag is off, a request with manualOverride true is
\* answered as the same request with manualOverride false is; and a request
\* with manualOverride false is answered as it would be with the override flag
\* the other way round.
C31_PreferenceNeedsFlag ==
    /\ (Served /\ query.manualOverride /\ ~m_manualOverride)
       => ret = getTimeReply(m_clocks, m_manualOverride, now,
                             query.source, FALSE, query.fallback)
    /\ (Served /\ ~query.manualOverride)
       => ret = getTimeReply(m_clocks, ~m_manualOverride, now,
                             query.source, query.manualOverride, query.fallback)

\* A request with manualOverride true has been answered from the source it
\* names while the flag is off and "manual" holds an offset of its own.
C31_Witness ==
    /\ Served
    /\ query = Query(micom, TRUE, NoFallback)
    /\ ~m_manualOverride
    /\ HasOffset(manual)
    /\ ret.returnValue /\ ret.source = micom


\* =================================================================== C32
\* C32: every event fired by the last call has been delivered when the call
\* has returned, in the order fired; the handlers of each delivery saw the
\* registry entry of the event's tag holding exactly the priority, offset and
\* lastUpdate the event carries; and the handlers of a re-broadcast saw the
\* override flag off.
C32_DeliveredAfterChange ==
    /\ [i \in DOMAIN delivered |-> delivered[i].event] = fired
    /\ \A i \in DOMAIN delivered :
           LET e == delivered[i].event
           IN  delivered[i].clock = Clock(e.priority, e.systemOffset, e.lastUpdate)
    /\ call = "manualOverride"
       => \A i \in DOMAIN delivered : ~delivered[i].override

\* An accepted update of "micom" has fired and its event has been delivered.
C32_Witness ==
    /\ call = "update"
    /\ Len(delivered) = 1
    /\ delivered[1].event.tag = micom
    /\ delivered[1].clock = m_clocks[micom]
    /\ stampedBy[micom] = "update"


\* =================================================================== C33
\* C33: right after construction the override flag is off and the registry
\* holds "manual" alone, with priority 0 and neither offset nor lastUpdate; in
\* every reachable state "manual" is registered, an update of "manual" returns
\* true, and a request for "manual" without manualOverride and fallback is
\* never refused as unregistered and is refused for lack of data exactly while
\* "manual" has no offset.
C33_ManualAlwaysExists ==
    /\ call = "ClockHandler"
       => /\ ~m_manualOverride
          /\ DOMAIN m_clocks = {manual}
          /\ m_clocks[manual] = Clock(0, invalidOffset, invalidTime)
    /\ Registered(manual)
    /\ \A offset \in OffsetArgs, timeStamp \in StampArgs :
           updateResult(m_clocks, now, offset, manual, timeStamp).returnValue
    /\ LET r == getTimeReply(m_clocks, m_manualOverride, now, manual, FALSE, NoFallback)
       IN  /\ ~Unregistered(r)
           /\ NoData(r) <=> ~HasOffset(manual)
    /\ (Served /\ query = Query(manual, FALSE, NoFallback))
       => /\ ~Unregistered(ret)
          /\ NoData(ret) <=> ~HasOffset(manual)

\* A request for "manual" has been refused for lack of data while another
\* source is registered and holds an offset.
C33_Witness ==
    /\ Served
    /\ query = Query(manual, FALSE, NoFallback)
    /\ NoData(ret)
    /\ HasOffset(micom)


\* =================================================================== C34
\* C34: the 'files' list of the reply to a preBackup request holds at most one
\* entry, the temporary backup database, however many preBackup requests were
\* served before.
C34_FilesListedOnce ==
    call = "preBackup" => Len(ret.files) <= 1


\* =================================================================== C35
\* The keys of the last copyKeys call that the source held and that the target
\* lacked or was to overwrite, as the files were before the call.
ListedKeys == {request'.keys[i] : i \in DOMAIN request'.keys}

CopyIsRefused ==
    \/ request'.p_sourceDb = NULL
    \/ request'.p_sourceDb = request'.this
    \/ request'.keys = <<>>
    \/ ~IsOpen(request'.p_sourceDb, m_prefsDb, m_p_backupDb)

KeysToCopy ==
    IF CopyIsRefused THEN {}
    ELSE {k \in ListedKeys :
            /\ k \in DOMAIN dbFiles[FileOf(request'.p_sourceDb, m_p_backupDb)]
            /\ \/ k \notin DOMAIN dbFiles[FileOf(request'.this, m_p_backupDb)]
               \/ request'.overwriteSameKeys}

\* C35: copyKeys returns the number of listed keys that the source holds and
\* that the target lacks or is to overwrite; afterwards the target holds these
\* keys with the source's values and every other key as before, and no other
\* database has changed; a refused call (null source, source equal to the
\* target, empty list, closed source) returns 0 and changes nothing.
C35_CopiesWhatItReports ==
    [][call' = "copyKeys" =>
       LET target == FileOf(request'.this, m_p_backupDb)
           source == FileOf(request'.p_sourceDb, m_p_backupDb)
       IN  /\ ret'.value = Cardinality(KeysToCopy)
           /\ DOMAIN dbFiles' = DOMAIN dbFiles
           /\ \A p \in DOMAIN dbFiles \ {target} : dbFiles'[p] = dbFiles[p]
           /\ dbFiles'[target] =
                  [k \in DOMAIN dbFiles[target] \cup KeysToCopy |->
                      IF k \in KeysToCopy THEN dbFiles[source][k]
                      ELSE dbFiles[target][k]]
    ]_vars


\* =================================================================== C36
\* The INSERT of the last merge call fails: the attached file holds no
\* Preferences table.
InsertFails == request'.sourceDbFilename \notin DOMAIN dbFiles

\* C36: merge returns a non-zero result only if the rows of the source
\* database are in this database afterwards, and it returns 0 and leaves every
\* database as it was when overwriteSameKeys is false, when the source cannot
\* be attached or when the insert of the source's rows fails.
C36_ZeroWhenNothingMerged ==
    [][call' = "merge" =>
       LET sourceDbFilename == request'.sourceDbFilename
       IN  /\ ret'.value # 0
              => /\ ~InsertFails
                 /\ dbFiles'[s_prefsDbPath] =
                        Merged(dbFiles[s_prefsDbPath], dbFiles[sourceDbFilename])
           /\ (\/ ~request'.overwriteSameKeys
               \/ ~CanAttach(sourceDbFilename)
               \/ InsertFails)
              => /\ ret'.value = 0
                 /\ dbFiles' = dbFiles
    ]_vars

=============================================================================
